---------------------------- MODULE Spec2Model ----------------------------
(***************************************************************************)
(* A model of src/src/header.rs: the dtype descriptor codec (descr,        *)
(* from_descr) and the nom parsers of the header (parser::item and its     *)
(* rules, parser::header).                                                  *)
(*                                                                         *)
(* Text is a sequence of bytes (naturals 0..255), as the parsers work on   *)
(* &[u8].  The nom macros (nom 3: IResult::Done / Error / Incomplete) are   *)
(* modelled by what they do on a byte slice; the payload of Incomplete     *)
(* (Needed) is not modelled.                                               *)
(***************************************************************************)
EXTENDS Integers, Sequences, FiniteSets, TLC

(***************************************************************************)
(* Bytes and byte-string literals.                                         *)
(***************************************************************************)
AsciiTable ==
  << <<" ", 32>>, <<"\t", 9>>, <<"\n", 10>>, <<"\r", 13>>,
     <<"\"", 34>>, <<"'", 39>>, <<"(", 40>>, <<")", 41>>, <<",", 44>>,
     <<"+", 43>>, <<"-", 45>>, <<"0", 48>>, <<"1", 49>>, <<"2", 50>>, <<"3", 51>>,
     <<"4", 52>>, <<"5", 53>>, <<"6", 54>>, <<"7", 55>>, <<"8", 56>>,
     <<"9", 57>>, <<":", 58>>, <<"<", 60>>, <<">", 62>>,
     <<"F", 70>>, <<"M", 77>>, <<"N", 78>>, <<"P", 80>>, <<"T", 84>>,
     <<"U", 85>>, <<"Y", 89>>, <<"[", 91>>, <<"]", 93>>,
     <<"a", 97>>, <<"b", 98>>, <<"e", 101>>, <<"f", 102>>, <<"l", 108>>,
     <<"k", 107>>, <<"r", 114>>, <<"s", 115>>, <<"u", 117>>, <<"x", 120>>,
     <<"{", 123>>, <<"}", 125>> >>

\* The byte of a one-character literal (Rust's b'c').
Ord(c) == AsciiTable[CHOOSE i \in 1..Len(AsciiTable) : AsciiTable[i][1] = c][2]

\* The bytes of a literal, written one character per element (Rust's b"...").
B(cs) == [k \in 1..Len(cs) |-> Ord(cs[k])]

\* &i[..n] and &i[n..]
Take(i, n) == SubSeq(i, 1, n)
Drop(i, n) == SubSeq(i, n + 1, Len(i))

RECURSIVE Concat(_)
\* The concatenation of a sequence of byte strings.
Concat(ss) == IF ss = <<>> THEN <<>> ELSE Head(ss) \o Concat(Tail(ss))

(***************************************************************************)
(* enum Value                                                              *)
(***************************************************************************)
String(s)  == [t |-> "String", s |-> s]
\* An i64 is held as sign and decimal magnitude (no leading zeros): the
\* range of i64 is beyond the model checker's integers.
Integer(n) == [t |-> "Integer", n |-> n]
Bool(b)    == [t |-> "Bool", b |-> b]
List(l)    == [t |-> "List", l |-> l]
Map(m)     == [t |-> "Map", m |-> m]

(***************************************************************************)
(* struct DType, enum RecordDType                                          *)
(***************************************************************************)
DType(ty, shape)   == [ty |-> ty, shape |-> shape]
Simple(dtype)      == [t |-> "Simple", dtype |-> dtype]
Structured(fields) == [t |-> "Structured", fields |-> fields]

(***************************************************************************)
(* nom: IResult, the primitive parsers and the combinators the header      *)
(* rules are built of.  A combinator is given the results of its parsers;  *)
(* a result it does not look at is not computed.                           *)
(***************************************************************************)
Done(rest, val) == [st |-> "Done", rest |-> rest, val |-> val]
Error(kind)     == [st |-> "Error", kind |-> kind]
Incomplete      == [st |-> "Incomplete"]

\* The 0-based index of the first byte of i that is in S, or -1 (None).
PositionIn(i, S) ==
  IF \E k \in 1..Len(i) : i[k] \in S
  THEN (CHOOSE k \in 1..Len(i) : i[k] \in S /\ \A j \in 1..(k - 1) : i[j] \notin S) - 1
  ELSE -1

\* The 0-based index of the first byte of i that is not in S, or -1 (None).
PositionNotIn(i, S) ==
  IF \E k \in 1..Len(i) : i[k] \notin S
  THEN (CHOOSE k \in 1..Len(i) : i[k] \notin S /\ \A j \in 1..(k - 1) : i[j] \in S) - 1
  ELSE -1

Whitespace == {Ord(" "), Ord("\t"), Ord("\r"), Ord("\n")}
Digits     == 48..57

\* nom::sp = eat_separator!(" \t\r\n"): never fails, takes the leading blanks.
sp(i) ==
  IF Len(i) = 0 THEN Done(i, <<>>)
  ELSE LET p == PositionNotIn(i, Whitespace)
       IN  IF p = -1 THEN Done(<<>>, i) ELSE Done(Drop(i, p), Take(i, p))

\* tag!(t): Compare::compare of the input with t.
tag(i, t) ==
  IF Len(i) < Len(t)
  THEN IF i = Take(t, Len(i)) THEN Incomplete ELSE Error("Tag")
  ELSE IF Take(i, Len(t)) = t THEN Done(Drop(i, Len(t)), Take(i, Len(t)))
  ELSE Error("Tag")

\* nom::digit: one or more ASCII digits; Incomplete on empty input.
digit(i) ==
  IF Len(i) = 0 THEN Incomplete
  ELSE LET p == PositionNotIn(i, Digits)
       IN  IF p = 0 THEN Error("Digit")
           ELSE IF p = -1 THEN Done(<<>>, i)
           ELSE Done(Drop(i, p), Take(i, p))

\* is_not_s!(arr): the longest non-empty prefix with no byte of arr.
is_not(i, arr) ==
  LET p == PositionIn(i, arr)
  IN  IF p = 0 THEN Error("IsNot")
      ELSE IF p = -1 THEN Done(<<>>, i)
      ELSE Done(Drop(i, p), Take(i, p))

\* The second half of wrap_sep!: blanks are skipped after a Done.
after_sep(r) == IF r.st = "Done" THEN Done(sp(r.rest).rest, r.val) ELSE r

\* A faulty wrap_sep!: no blanks are skipped before the parser.
no_before_sep(i) == i

\* The first half of wrap_sep!: blanks are skipped before the parser.
\* wrap_sep!(sp, P), what ws! puts around the parsers P it rewrites, is
\* after_sep(P(before_sep(i))).
before_sep(i) == sp(i).rest

\* map!(P, F): r is the result of P, v what F makes of its value.
map_val(r, v) == IF r.st = "Done" THEN Done(r.rest, v) ELSE r

\* map_res!(P, F): r is the result of P, f what F makes of its value,
\* Ok(v) or Err.
map_res(r, f) ==
  IF r.st # "Done" THEN r
  ELSE IF f.ok THEN Done(r.rest, f.v)
  ELSE Error("MapRes")

\* std::str::from_utf8 on the bytes of the model (ASCII, or a lone byte
\* >= 0x80, which is no valid UTF-8).
from_utf8(bs) ==
  IF \A k \in 1..Len(bs) : bs[k] < 128 THEN [ok |-> TRUE, v |-> bs]
  ELSE [ok |-> FALSE]

(***************************************************************************)
(* <i64 as FromStr>::from_str                                              *)
(***************************************************************************)
I64MaxDigits == <<9,2,2,3,3,7,2,0,3,6,8,5,4,7,7,5,8,0,7>>
I64MinDigits == <<9,2,2,3,3,7,2,0,3,6,8,5,4,7,7,5,8,0,8>>

\* The digits ds without leading zeros (one zero is kept).
Canon(ds) ==
  LET p == PositionNotIn(ds, {0})
  IN  IF p = -1 THEN <<0>> ELSE Drop(ds, p)

\* a <= b for canonical digit strings.
DigitsLeq(a, b) ==
  \/ Len(a) < Len(b)
  \/ /\ Len(a) = Len(b)
     /\ \/ a = b
        \/ \E k \in 1..Len(a) : a[k] < b[k] /\ \A j \in 1..(k - 1) : a[j] = b[j]

\* The value of sign and magnitude, when it is in the range of i64.
checked_i64(neg, mag) ==
  IF DigitsLeq(mag, IF neg THEN I64MinDigits ELSE I64MaxDigits)
  THEN [ok |-> TRUE, v |-> [neg |-> neg /\ mag # <<0>>, mag |-> mag]]
  ELSE [ok |-> FALSE]

\* The bytes after the sign: one or more digits.
from_str_digits(neg, ds) ==
  IF Len(ds) = 0 \/ \E k \in 1..Len(ds) : ds[k] \notin Digits
  THEN [ok |-> FALSE]
  ELSE checked_i64(neg, Canon([k \in 1..Len(ds) |-> ds[k] - 48]))

\* from_str: an optional sign, then one or more digits; Err on any other
\* byte and on overflow of i64 (checked_mul / checked_add / checked_sub).
from_str(bs) ==
  IF Len(bs) > 0 /\ bs[1] \in {Ord("-"), Ord("+")}
  THEN from_str_digits(bs[1] = Ord("-"), Tail(bs))
  ELSE from_str_digits(FALSE, bs)

(***************************************************************************)
(* mod parser                                                              *)
(***************************************************************************)
RECURSIVE item(_)
RECURSIVE list_loop(_, _, _)
RECURSIVE map_loop(_, _)

\* map!(.., Value::Integer)
integer_value(r) == map_val(r, Integer(r.val))

\* map_res!(.., ::std::str::FromStr::from_str)
integer_from_str(r) == integer_value(map_res(r, from_str(r.val)))

\* map_res!(.., ::std::str::from_utf8)
integer_from_utf8(r) == integer_from_str(map_res(r, from_utf8(r.val)))

\* The maps of integer, on the result d of digit.
integer_of(d) ==
  IF d.st # "Done" THEN d ELSE integer_from_utf8(after_sep(d))

\* named!(integer): map!(map_res!(map_res!(ws!(digit), from_utf8), from_str), Value::Integer)
integer(i) == integer_of(digit(before_sep(i)))

\* alt!(tag!("True") => { |_| Bool(true) } | tag!("False") => { |_| Bool(false) })
\* under ws!: t and f are the results of the two tags.
boolean_alt(t, f) ==
  IF t.st # "Error" THEN after_sep(map_val(after_sep(t), Bool(TRUE)))
  ELSE IF f.st # "Error" THEN after_sep(map_val(after_sep(f), Bool(FALSE)))
  ELSE Error("Alt")

\* named!(boolean)
boolean(i) ==
  boolean_alt(tag(before_sep(before_sep(i)), B(<<"T","r","u","e">>)),
              tag(before_sep(before_sep(i)), B(<<"F","a","l","s","e">>)))

\* The end of delimited!: b is the body, c the closing tag.
quoted_close(b, c) ==
  IF c.st # "Done" THEN c ELSE Done(after_sep(c).rest, b.val)

\* The closing tag after the body b.
quoted_body(b, q) ==
  IF b.st # "Done" THEN b
  ELSE quoted_close(b, tag(before_sep(after_sep(b).rest), <<q>>))

\* The body after the opening tag a.
quoted_open(a, q) ==
  IF a.st # "Done" THEN a
  ELSE quoted_body(is_not(before_sep(after_sep(a).rest), {q}), q)

\* delimited!(tag!(q), is_not_s!(q), tag!(q)) under ws!
quoted(i, q) == quoted_open(tag(before_sep(i), <<q>>), q)

\* map!(.., Value::String)
string_value(r) == map_val(r, String(r.val))

\* map!(.., |s: &str| s.to_string())
string_to_string(r) == string_value(map_val(r, r.val))

\* map_res!(.., ::std::str::from_utf8)
string_from_utf8(r) == string_to_string(map_res(r, from_utf8(r.val)))

\* The maps of string, on the result r of a branch of alt!.
string_val(r) == string_from_utf8(after_sep(after_sep(r)))

\* alt!(A | B): a and b are the results of A and B.
string_alt(a, b) ==
  IF a.st # "Error" THEN string_val(a)
  ELSE IF b.st # "Error" THEN string_val(b)
  ELSE Error("Alt")

\* named!(string): map!(map!(map_res!(ws!(alt!(delimited!(..) | delimited!(..))),
\*                                    from_utf8), to_string), Value::String)
string(i) ==
  string_alt(quoted(before_sep(before_sep(i)), Ord("\"")),
             quoted(before_sep(before_sep(i)), Ord("'")))

\* alt!(A | B): c and n are the results of the two tags.
comma_alt(c, n) ==
  IF c.st # "Error" THEN after_sep(c)
  ELSE IF n.st # "Error" THEN after_sep(n)
  ELSE Error("Alt")

\* A faulty terminator: tag!("") alone, no comma after the last element.
no_trailing_comma(i) == after_sep(after_sep(tag(before_sep(before_sep(i)), <<>>)))

\* alt!(tag!(",") | tag!("")) under ws!
trailing_comma(i) ==
  comma_alt(tag(before_sep(i), <<Ord(",")>>), tag(before_sep(i), <<>>))

\* The rules an item is nested in are written as chains: each operator
\* is given the result of one parser and, when that is Done, passes on to
\* the next parser of the sequence.  ws! wraps the parsers P it rewrites
\* (alt!, delimited!, terminated! and their arguments) in wrap_sep!,
\* after_sep(P(before_sep(i))); the halves of the wraps that are around a
\* whole sequence are written where the sequence begins (a before_sep on
\* its input) and where it ends (an sp on what it leaves).  The arguments
\* of separated_list! are not rewritten: its separator, its elements and
\* the parts of separated_pair! are applied as they are written.

\* The end of delimited!: c is the closing tag.
list_close(res, c) == IF c.st # "Done" THEN c ELSE Done(c.rest, res)

\* The end of terminated!: t is alt!(tag!(",") | tag!("")); then the
\* closing tag of delimited!.
list_comma(res, t, close) ==
  IF t.st # "Done" THEN t
  ELSE list_close(res, after_sep(tag(before_sep(sp(t.rest).rest), <<close>>)))

\* The list separated_list! returns, res with input left; then the
\* terminator of terminated!.
list_end(input, res, close) ==
  list_comma(res, after_sep(trailing_comma(before_sep(sp(input).rest))), close)

\* One turn of the loop of separated_list!: s is the separator on input,
\* e the element after it.  The loop goes on while both are Done and both
\* took some input; the first Error ends the list before the separator,
\* an Incomplete is returned.
list_step(input, res, s, e, close) ==
  IF /\ s.st = "Done"
     /\ Len(s.rest) # Len(input)
     /\ e.st = "Done"
     /\ Len(e.rest) # Len(s.rest)
  THEN list_loop(e.rest, Append(res, e.val), close)
  ELSE IF s.st = "Incomplete" THEN s
  ELSE IF s.st = "Done" /\ Len(s.rest) # Len(input) /\ e.st = "Incomplete"
  THEN e
  ELSE list_end(input, res, close)

\* The element after the separator s.
list_sep(input, res, s, close) ==
  list_step(input, res, s, item(s.rest), close)

\* The loop of separated_list!(tag!(","), item), after the first element.
list_loop(input, res, close) ==
  list_sep(input, res, tag(input, <<Ord(",")>>), close)

\* The first element of separated_list!: e is the element on i.
list_first(i, e, close) ==
  IF e.st = "Done" /\ Len(e.rest) # Len(i)
  THEN list_loop(e.rest, <<e.val>>, close)
  ELSE IF e.st = "Done" THEN Error("SeparatedList")
  ELSE IF e.st = "Incomplete" THEN e
  ELSE list_end(i, <<>>, close)

\* separated_list!(tag!(","), item), and what follows it.
separated_list_item(i, close) == list_first(i, item(i), close)

\* After the opening tag a of delimited!: terminated!(separated_list!(..), ..)
list_open(a, close) ==
  IF a.st # "Done" THEN a
  ELSE separated_list_item(before_sep(before_sep(a.rest)), close)

\* delimited!(tag!(open),
\*            terminated!(separated_list!(tag!(","), item), alt!(tag!(",") | tag!(""))),
\*            tag!(close)) under ws!
delimited_list(i, open, close) ==
  list_open(after_sep(tag(before_sep(i), <<open>>)), close)

\* map!(.., Value::List) of the branch of alt! that is r.
list_value(r) == map_val(r, List(r.val))

\* The result r of a branch of alt!, under ws! and map!.
list_val(r) == list_value(after_sep(after_sep(r)))

\* alt!(A | B): a and b are the results of A and B.
list_alt(a, b) ==
  IF a.st # "Error" THEN list_val(a)
  ELSE IF b.st # "Error" THEN list_val(b)
  ELSE Error("Alt")

\* named!(list): map!(ws!(alt!(delimited!("[" .. "]") | delimited!("(" .. ")"))), Value::List)
list(i) ==
  list_alt(delimited_list(before_sep(before_sep(i)), Ord("["), Ord("]")),
           delimited_list(before_sep(before_sep(i)), Ord("("), Ord(")")))

\* map_opt!(string, |it| match it { Value::String(s) => Some(s), _ => None })
map_key(r) ==
  IF r.st # "Done" THEN r
  ELSE IF r.val.t = "String" THEN Done(r.rest, r.val.s)
  ELSE Error("MapOpt")

\* The end of separated_pair!: k is the key, v the value.
pair_value(k, v) ==
  IF v.st # "Done" THEN v ELSE Done(v.rest, <<k.val, v.val>>)

\* The value after the separator c.
pair_sep(k, c) ==
  IF c.st # "Done" THEN c ELSE pair_value(k, item(c.rest))

\* The separator after the key k.
pair_key(k) ==
  IF k.st # "Done" THEN k
  ELSE pair_sep(k, tag(k.rest, <<Ord(":")>>))

\* separated_pair!(map_opt!(string, ..), tag!(":"), item)
map_pair(i) == pair_key(map_key(string(i)))

\* v.into_iter().collect::<HashMap<_, _>>(): a later pair replaces an
\* earlier one of the same key.
collect(pairs) ==
  [key \in {pairs[k][1] : k \in 1..Len(pairs)} |->
     pairs[CHOOSE k \in 1..Len(pairs) :
             pairs[k][1] = key /\ \A j \in (k + 1)..Len(pairs) : pairs[j][1] # key][2]]

\* The end of delimited!: c is the closing tag; then map!.
map_close(res, c) ==
  IF c.st # "Done" THEN c ELSE Done(sp(c.rest).rest, Map(collect(res)))

\* The end of terminated!: t is alt!(tag!(",") | tag!("")); then the
\* closing tag of delimited!.
map_comma(res, t) ==
  IF t.st # "Done" THEN t
  ELSE map_close(res, after_sep(tag(before_sep(sp(t.rest).rest), <<Ord("}")>>)))

\* The list separated_list! returns, res with input left; then the
\* terminator of terminated!.
map_end(input, res) ==
  map_comma(res, after_sep(trailing_comma(before_sep(sp(input).rest))))

\* One turn of the loop of separated_list! over pairs.
map_step(input, res, s, e) ==
  IF /\ s.st = "Done"
     /\ Len(s.rest) # Len(input)
     /\ e.st = "Done"
     /\ Len(e.rest) # Len(s.rest)
  THEN map_loop(e.rest, Append(res, e.val))
  ELSE IF s.st = "Incomplete" THEN s
  ELSE IF s.st = "Done" /\ Len(s.rest) # Len(input) /\ e.st = "Incomplete"
  THEN e
  ELSE map_end(input, res)

\* The pair after the separator s.
map_sep(input, res, s) == map_step(input, res, s, map_pair(s.rest))

\* The loop of separated_list!(tag!(","), separated_pair!(..)), after the
\* first pair.
map_loop(input, res) ==
  map_sep(input, res, tag(input, <<Ord(",")>>))

\* The first pair of separated_list!: e is the pair on i.
map_first(i, e) ==
  IF e.st = "Done" /\ Len(e.rest) # Len(i)
  THEN map_loop(e.rest, <<e.val>>)
  ELSE IF e.st = "Done" THEN Error("SeparatedList")
  ELSE IF e.st = "Incomplete" THEN e
  ELSE map_end(i, <<>>)

\* separated_list!(tag!(","), separated_pair!(..)), and what follows it.
separated_list_pair(i) == map_first(i, map_pair(i))

\* After the opening tag a of delimited!.
map_open(a) ==
  IF a.st # "Done" THEN a
  ELSE separated_list_pair(before_sep(before_sep(a.rest)))

\* named!(map): map!(ws!(delimited!(tag!("{"), terminated!(..), tag!("}"))), ..)
map(i) == map_open(after_sep(tag(before_sep(before_sep(i)), <<Ord("{")>>)))

\* alt! of five parsers, given their results: the first that is no Error.
alt5(a, b, c, d, e) ==
  IF a.st # "Error" THEN a
  ELSE IF b.st # "Error" THEN b
  ELSE IF c.st # "Error" THEN c
  ELSE IF d.st # "Error" THEN d
  ELSE IF e.st # "Error" THEN e
  ELSE Error("Alt")

\* named!(item): alt!(integer | boolean | string | list | map)
item(i) == alt5(integer(i), boolean(i), string(i), list(i), map(i))

\* nom::le_u16
le_u16(i) ==
  IF Len(i) < 2 THEN Incomplete ELSE Done(Drop(i, 2), i[2] * 256 + i[1])

\* take!(n)
take(i, n) ==
  IF Len(i) < n THEN Incomplete ELSE Done(Drop(i, n), Take(i, n))

\* complete!(P): an Incomplete of P is an Error.
complete(r) == IF r.st = "Incomplete" THEN Error("Complete") ELSE r

\* The match of length_value!: n is the length read, d the n bytes taken
\* after it, r the result of the parser on those bytes; what the parser
\* leaves of them is dropped.
length_value_of(n, d, r) ==
  IF n.st # "Done" THEN n
  ELSE IF d.st # "Done" THEN d
  ELSE IF r.st # "Done" THEN r
  ELSE Done(d.rest, r.val)

\* length_value!(le_u16, item)
length_value(i) ==
  LET n == le_u16(i)
      d == take(n.rest, n.val)
  IN  length_value_of(n, d, complete(item(d.val)))

\* do_parse!(A >> B >> C >> hdr: H >> (hdr))
do_parse(a, b, c, h) ==
  IF a.st # "Done" THEN a
  ELSE IF b.st # "Done" THEN b
  ELSE IF c.st # "Done" THEN c
  ELSE h

\* named!(header)
header(bs) ==
  LET a == tag(bs, <<147>>)
      b == tag(a.rest, B(<<"N","U","M","P","Y">>))
      c == tag(b.rest, <<1, 0>>)
  IN  do_parse(a, b, c, length_value(c.rest))

parse_header(bs) == header(bs)

(***************************************************************************)
(* RecordDType::descr                                                      *)
(***************************************************************************)
RECURSIVE fmt_u64(_)
\* format!("{}", n) of a u64
fmt_u64(n) ==
  IF n < 10 THEN <<48 + n>> ELSE fmt_u64(n \div 10) \o <<48 + (n % 10)>>

\* A faulty fold: the dimensions joined by commas, none after the last.
shape_join(o, shape) ==
  o \o Concat([k \in 1..Len(shape) |->
                 (IF k > 1 THEN <<Ord(",")>> ELSE <<>>) \o fmt_u64(shape[k])])

RECURSIVE shape_fold(_, _)
\* t.shape.iter().fold(String::new(), |o, n| o + &format!("{},", n))
shape_fold(o, shape) ==
  IF shape = <<>> THEN o
  ELSE shape_fold(o \o fmt_u64(Head(shape)) \o <<Ord(",")>>, Tail(shape))

\* The closure of descr: the text of one field (id, t).
field_str(f) ==
  IF Len(f[2].shape) = 0
  THEN B(<<"(","'">>) \o f[1] \o B(<<"'",","," ","'">>) \o f[2].ty
         \o B(<<"'",")",","," ">>)
  ELSE B(<<"(","'">>) \o f[1] \o B(<<"'",","," ","'">>) \o f[2].ty
         \o B(<<"'",","," ","(">>) \o shape_fold(<<>>, f[2].shape)
         \o B(<<")",")",","," ">>)

RECURSIVE fields_fold(_, _)
\* fields.iter().map(..).fold("[".to_string(), |o, n| o + &n)
fields_fold(o, fields) ==
  IF fields = <<>> THEN o
  ELSE fields_fold(o \o field_str(Head(fields)), Tail(fields))

descr(d) ==
  IF d.t = "Structured"
  THEN fields_fold(<<Ord("[")>>, d.fields) \o <<Ord("]")>>
  ELSE <<Ord("'")>> \o d.dtype.ty \o <<Ord("'")>>

(***************************************************************************)
(* RecordDType::from_descr: io::Result<RecordDType>, or a panic.           *)
(***************************************************************************)
Ok(v)      == [st |-> "Ok", val |-> v]
Err(e)     == [st |-> "Err", err |-> e]
Panic(msg) == [st |-> "Panic", msg |-> msg]

\* A faulty convert_field: the third element of the field is read as the
\* shape.
convert_field_shape(field) ==
  IF Len(field) < 2 THEN Panic("index out of bounds")
  ELSE IF field[1].t = "String" /\ field[2].t = "String"
  THEN Ok(<<field[1].s,
            DType(field[2].s,
                  IF Len(field) > 2 /\ field[3].t = "List" THEN field[3].l ELSE <<>>)>>)
  ELSE Panic("not implemented")

\* field[0] and field[1] are indexed before they are matched.
convert_field(field) ==
  IF Len(field) < 2 THEN Panic("index out of bounds")
  ELSE IF field[1].t = "String" /\ field[2].t = "String"
  THEN Ok(<<field[1].s, DType(field[2].s, <<>>)>>)
  ELSE Panic("not implemented")

RECURSIVE from_list_loop(_, _)

\* pairs.push(convert_field(field)?), and the rest of the loop.
from_list_push(values, pairs, f) ==
  IF f.st # "Ok" THEN f
  ELSE from_list_loop(Tail(values), Append(pairs, f.val))

\* The for loop of from_list over the values left, with the pairs pushed.
from_list_loop(values, pairs) ==
  IF values = <<>> THEN Ok(pairs)
  ELSE IF Head(values).t = "List"
  THEN from_list_push(values, pairs, convert_field(Head(values).l))
  ELSE Panic("not implemented")

from_list(values) == from_list_loop(values, <<>>)

\* from_list(list)?: r is the result of from_list.
structured_of(r) == IF r.st = "Ok" THEN Ok(Structured(r.val)) ELSE r

from_descr(v) ==
  IF v.t = "String" THEN Ok(Simple(DType(v.s, <<>>)))
  ELSE IF v.t = "List"
  THEN structured_of(from_list(v.l))
  ELSE Panic("not implemented")


(***************************************************************************)
(* The inputs the operations are applied to.                               *)
(***************************************************************************)
MaxFields == 2
MaxItems  == 2
MaxPad    == 2

\* All sequences over S of length at most n.
SeqsUpTo(S, n) == UNION {[1..k -> S] : k \in 0..n}

\* Field names and type strings: plain ones, the empty string, strings
\* with a quote or a leading blank.
Names  == {B(<<"a">>), B(<<"b">>), <<>>, B(<<"a","'","b">>), B(<<" ","a">>)}
Tys    == {B(<<"<","u","2">>), <<>>}
Shapes == {<<>>, <<3, 10>>}

FieldInputs == {<<n, DType(ty, sh)>> : n \in Names, ty \in Tys, sh \in Shapes}

DTypeInputs ==
  {Simple(DType(ty, <<>>)) : ty \in Names \cup Tys}
    \cup {Structured(fs) : fs \in SeqsUpTo(FieldInputs, MaxFields)}

\* Values given to from_descr directly: every variant, and lists whose
\* entries are well and badly formed fields.
StrV(cs) == String(B(cs))
IntV(k)  == Integer([neg |-> FALSE, mag |-> <<k>>])

EntryInputs ==
  { List(<<StrV(<<"a">>), StrV(<<"<","u","2">>)>>),
    List(<<StrV(<<"b">>), StrV(<<">","f","4">>), List(<<IntV(2), IntV(3)>>)>>),
    List(<<StrV(<<"a">>), StrV(<<"b">>), Bool(TRUE), IntV(1)>>),
    List(<<>>),
    List(<<StrV(<<"a">>)>>),
    List(<<IntV(1), StrV(<<"a">>)>>),
    List(<<StrV(<<"a">>), Bool(FALSE)>>),
    StrV(<<"a">>),
    IntV(7),
    Map(<<>>) }

ValueInputs ==
  {StrV(<<">","f","8">>), String(<<>>), IntV(5), Bool(TRUE), Bool(FALSE),
   Map(<<>>), Map(B(<<"a">>) :> IntV(1))}
    \cup {List(es) : es \in SeqsUpTo(EntryInputs, MaxFields)}

\* Integers, as sign and decimal digits (with and without leading zeros).
MagInputs ==
  { <<0>>, <<4>>, <<1,2>>, <<0,0,7>>, <<1,2,3,4>>,
    <<9,2,2,3,3,7,2,0,3,6,8,5,4,7,7,5,8,0,6>>,
    I64MaxDigits, I64MinDigits,
    <<0>> \o I64MaxDigits,
    <<9,2,2,3,3,7,2,0,3,6,8,5,4,7,7,5,8,1,0>>,
    <<1>> \o [k \in 1..19 |-> 0],
    <<1,8,4,4,6,7,4,4,0,7,3,7,0,9,5,5,1,6,1,6>> }

\* The decimal text of sign and digits.
IntText(neg, ds) ==
  (IF neg THEN <<Ord("-")>> ELSE <<>>) \o [k \in 1..Len(ds) |-> 48 + ds[k]]

\* Texts of single items, used as the elements of lists.
ItemTexts ==
  { B(<<"4">>), B(<<"1","2">>), B(<<"T","r","u","e">>),
    B(<<"F","a","l","s","e">>), B(<<"'","a","'">>), B(<<"\"","b","\"">>),
    B(<<"(",")">>), B(<<"[","1",","," ","2","]">>), B(<<"(","7",",",")">>),
    B(<<"{","'","a","'",":"," ","1","}">>), B(<<" ","2"," ">>),
    B(<<"1"," ">>) }

\* Items as their tokens: blanks may be added between any two of them.
TokenInputs ==
  { <<B(<<"T","r","u","e">>)>>,
    <<B(<<"F","a","l","s","e">>)>>,
    <<B(<<"1","2">>)>>,
    <<B(<<"'","a"," ","b","'">>)>>,
    <<B(<<"[">>), B(<<"5">>), B(<<",">>), B(<<"6">>), B(<<",">>), B(<<"7">>), B(<<"]">>)>>,
    <<B(<<"(">>), B(<<"'","a","'">>), B(<<",">>), B(<<")">>)>>,
    <<B(<<"(">>), B(<<")">>)>>,
    <<B(<<"[">>), B(<<"(">>), B(<<"T","r","u","e">>), B(<<")">>), B(<<",">>),
      B(<<"[">>), B(<<"]">>), B(<<"]">>)>>,
    <<B(<<"{">>), B(<<"\"","k","\"">>), B(<<":">>), B(<<"1">>), B(<<",">>), B(<<"}">>)>> }

\* k blanks.
Blanks(k) == [j \in 1..k |-> Ord(" ")]

\* The tokens with pad[g] blanks in gap g: gap 1 is before the first
\* token, gap Len(tokens) + 1 after the last.
Padded(tokens, pad) ==
  Concat([g \in 1..(2 * Len(tokens) + 1) |->
            IF g % 2 = 1 THEN Blanks(pad[(g + 1) \div 2]) ELSE tokens[g \div 2]])

\* Envelopes: first byte, format tag, version, declared length, and the
\* bytes after the length.
RestInputs ==
  { B(<<"'","a","'">>), B(<<"5"," ","x">>), B(<<"[","1","]"," ","\n">>) \o <<1, 2>>,
    B(<<"{","'","a","'",":","1","}","\n">>), B(<<"5","'","a","'">>),
    B(<<"x">>), B(<<"T","r","u","e">>), <<>> }

Envelope(first, fmt, version, L, rest) ==
  <<first>> \o fmt \o version \o <<L % 256, L \div 256>> \o rest

(***************************************************************************)
(* The state of one run: the operation applied, what it was applied to    *)
(* and what it returned.  The functions keep no state between calls, so a  *)
(* run is one call on an input of the caller's, or the read path after     *)
(* descr: item on the text descr returned, from_descr on the Value item    *)
(* returned.                                                               *)
(***************************************************************************)
VARIABLES op, input, dtype, text, parsed, value, conv

vars == <<op, input, dtype, text, parsed, value, conv>>

None == [t |-> "None", st |-> "None", kind |-> "none"]

Init ==
  /\ op = "none"
  /\ input = None
  /\ dtype = None
  /\ text = <<>>
  /\ parsed = None
  /\ value = None
  /\ conv = None

\* d.descr()
DoDescr ==
  \E d \in DTypeInputs :
    /\ op = "none"
    /\ op' = "descr"
    /\ input' = [kind |-> "descr"]
    /\ dtype' = d
    /\ text' = descr(d)
    /\ parsed' = None
    /\ value' = None
    /\ conv' = None

\* parser::item on the text descr returned.
DoItemOfDescr ==
  /\ op = "descr"
  /\ op' = "item"
  /\ parsed' = item(text)
  /\ UNCHANGED <<input, dtype, text, value, conv>>

\* RecordDType::from_descr on the Value item returned.
DoFromDescrOfItem ==
  /\ op = "item"
  /\ parsed.st = "Done"
  /\ op' = "from_descr"
  /\ value' = parsed.val
  /\ conv' = from_descr(parsed.val)
  /\ UNCHANGED <<input, dtype, text, parsed>>

\* RecordDType::from_descr on a Value of the caller's.
DoFromDescr ==
  \E v \in ValueInputs :
    /\ op = "none"
    /\ op' = "from_descr"
    /\ input' = [kind |-> "value"]
    /\ dtype' = None
    /\ text' = <<>>
    /\ parsed' = None
    /\ value' = v
    /\ conv' = from_descr(v)

\* The text of a list: the items with commas between them, in parentheses
\* or brackets, with or without a comma after the last item.
ListText(items, paren, comma) ==
  <<IF paren THEN Ord("(") ELSE Ord("[")>>
    \o Concat([k \in 1..Len(items) |->
                 (IF k > 1 THEN <<Ord(",")>> ELSE <<>>) \o items[k]])
    \o (IF comma THEN <<Ord(",")>> ELSE <<>>)
    \o <<IF paren THEN Ord(")") ELSE Ord("]")>>

\* parser::item on the decimal text of an integer.
DoItemInteger ==
  \E neg \in BOOLEAN, ds \in MagInputs :
    /\ op = "none"
    /\ op' = "item"
    /\ input' = [kind |-> "integer", neg |-> neg, ds |-> ds]
    /\ dtype' = None
    /\ text' = IntText(neg, ds)
    /\ parsed' = item(text')
    /\ value' = None
    /\ conv' = None

\* parser::item on a parenthesized or bracketed sequence of items.
DoItemList ==
  \E items \in SeqsUpTo(ItemTexts, MaxItems), paren \in BOOLEAN, comma \in BOOLEAN :
    /\ op = "none"
    /\ op' = "item"
    /\ input' = [kind |-> "list", items |-> items, paren |-> paren, comma |-> comma]
    /\ dtype' = None
    /\ text' = ListText(items, paren, comma)
    /\ parsed' = item(text')
    /\ value' = None
    /\ conv' = None

\* parser::item on an item with blanks added around its tokens.
DoItemPadded ==
  \E tokens \in TokenInputs :
    \E k \in 1..MaxPad : \E pad \in [1..(Len(tokens) + 1) -> {0, k}] :
      /\ op = "none"
      /\ op' = "item"
      /\ input' = [kind |-> "padded", tokens |-> tokens, pad |-> pad]
      /\ dtype' = None
      /\ text' = Padded(tokens, pad)
      /\ parsed' = item(text')
      /\ value' = None
      /\ conv' = None

\* parse_header on an envelope.
DoParseHeader ==
  \E first \in {147, 146},
     fmt \in {B(<<"N","U","M","P","Y">>), B(<<"N","U","M","P","x">>)},
     version \in {<<1, 0>>, <<2, 0>>, <<1, 1>>},
     rest \in RestInputs :
    \E L \in 0..(Len(rest) + 1) \cup {258} :
      /\ op = "none"
      /\ op' = "parse_header"
      /\ input' = [kind |-> "envelope", first |-> first, fmt |-> fmt,
                   version |-> version, L |-> L, rest |-> rest]
      /\ dtype' = None
      /\ text' = Envelope(first, fmt, version, L, rest)
      /\ parsed' = parse_header(text')
      /\ value' = None
      /\ conv' = None

Next ==
  \/ DoDescr
  \/ DoItemOfDescr
  \/ DoFromDescrOfItem
  \/ DoFromDescr
  \/ DoItemInteger
  \/ DoItemList
  \/ DoItemPadded
  \/ DoParseHeader

Spec == Init /\ [][Next]_vars


(***************************************************************************)
(* The properties.                                                         *)
(***************************************************************************)

\* No field of d has a shape.
NoShapes(d) ==
  IF d.t = "Structured"
  THEN \A k \in DOMAIN d.fields : d.fields[k][2].shape = <<>>
  ELSE d.dtype.shape = <<>>

\* C1: round trip.  For every RecordDType d in which every shape is empty
\* (Simple, or Structured with any number of fields, names and type
\* strings including the empty string and strings with a quote), the item
\* parser succeeds on descr(d) and from_descr of the parsed Value is Ok(d).
RoundTrip ==
  (dtype.t \in {"Simple", "Structured"} /\ NoShapes(dtype)) =>
    /\ op = "item" => parsed.st = "Done"
    /\ op = "from_descr" => conv = Ok(dtype)

\* The decimal text of n < 100: the digits, without a leading zero, whose
\* value is n.
DecimalText(n) ==
  CHOOSE ds \in UNION {[1..k -> Digits] : k \in 1..2} :
    /\ Len(ds) = 2 => ds[1] # 48
    /\ n = (IF Len(ds) = 2 THEN 10 * (ds[1] - 48) + (ds[2] - 48) ELSE ds[1] - 48)

\* The tuple of one field in the text of a Structured dtype.
TupleText(f) ==
  IF f[2].shape = <<>>
  THEN B(<<"(","'">>) \o f[1] \o B(<<"'",","," ","'">>) \o f[2].ty \o B(<<"'",")",","," ">>)
  ELSE B(<<"(","'">>) \o f[1] \o B(<<"'",","," ","'">>) \o f[2].ty \o B(<<"'",","," ","(">>)
         \o Concat([k \in 1..Len(f[2].shape) |->
                      DecimalText(f[2].shape[k]) \o <<Ord(",")>>])
         \o B(<<")",")",","," ">>)

\* C2: descr(Structured(fields)) is '[', then for each field in input
\* order "('name', 'ty'), " when its shape is empty and
\* "('name', 'ty', (d0,d1,...,)), " otherwise, every dimension a bare
\* decimal integer followed by a comma, then ']'.
DescrFormat ==
  dtype.t = "Structured" =>
    text = <<Ord("[")>>
             \o Concat([k \in 1..Len(dtype.fields) |-> TupleText(dtype.fields[k])])
             \o <<Ord("]")>>

\* descr has been applied to two fields, the first with a shape of two
\* dimensions, the second with none.
DescrFormatWitness ==
  /\ op = "descr"
  /\ dtype = Structured(<< <<B(<<"a">>), DType(B(<<"<","u","2">>), <<3, 10>>)>>,
                           <<B(<<"b">>), DType(B(<<"<","u","2">>), <<>>)>> >>)
  /\ text = B(<<"[","(","'","a","'",","," ","'","<","u","2","'",","," ","(","3",",","1","0",",",")",")",","," ","(","'","b","'",","," ","'","<","u","2","'",")",","," ","]">>)

\* An entry from_descr makes a field of: a list of at least two elements,
\* the first two of them strings.
WellFormedEntry(e) ==
  /\ e.t = "List"
  /\ Len(e.l) >= 2
  /\ e.l[1].t = "String"
  /\ e.l[2].t = "String"

\* C3: from_descr on a List whose every entry is a List of at least two
\* elements, the first two Strings, is Ok(Structured(fields)) with one
\* field per entry in the same order, name and ty the entry's first and
\* second strings and every shape empty: a third element is ignored.
FromDescrFields ==
  (/\ op = "from_descr"
   /\ value.t = "List"
   /\ \A k \in DOMAIN value.l : WellFormedEntry(value.l[k])) =>
    conv = Ok(Structured([k \in 1..Len(value.l) |->
                            <<value.l[k].l[1].s, DType(value.l[k].l[2].s, <<>>)>>]))

\* A descriptor descr made of a field with a shape has come back from
\* from_descr with the shape lost.
FromDescrFieldsWitness ==
  /\ op = "from_descr"
  /\ dtype.t = "Structured"
  /\ Len(dtype.fields) = 2
  /\ dtype.fields[2][2].shape = <<3, 10>>
  /\ Len(value.l[2].l) = 3
  /\ conv.st = "Ok"
  /\ conv.val.fields[2] = <<dtype.fields[2][1], DType(dtype.fields[2][2].ty, <<>>)>>

\* C4: from_descr on a List returns the error MalformedField (an Err, no
\* panic) when some entry is not a List, has fewer than two elements, or
\* has a first or second element that is not a String.
MalformedFieldError ==
  (/\ op = "from_descr"
   /\ value.t = "List"
   /\ \E k \in DOMAIN value.l : ~WellFormedEntry(value.l[k])) =>
    conv = Err("MalformedField")

\* C5: from_descr on an Integer, a Bool or a Map returns the error
\* UnsupportedDescriptor, and from_descr panics on no Value.
UnsupportedDescriptorError ==
  op = "from_descr" =>
    /\ conv.st # "Panic"
    /\ value.t \in {"Integer", "Bool", "Map"} => conv = Err("UnsupportedDescriptor")

\* Why an envelope is to be rejected, or "none".
Rejection(e) ==
  IF e.first # 147 \/ e.fmt # B(<<"N","U","M","P","Y">>) THEN "InvalidMagic"
  ELSE IF e.version # <<1, 0>> THEN "UnsupportedVersion"
  ELSE IF e.L > Len(e.rest) THEN "TruncatedInput"
  ELSE "none"

\* One envelope of each kind of rejection.
RejectedEnvelopes ==
  { [first |-> 146, fmt |-> B(<<"N","U","M","P","Y">>), version |-> <<1, 0>>,
     L |-> 3, rest |-> B(<<"'","a","'">>)],
    [first |-> 147, fmt |-> B(<<"N","U","M","P","Y">>), version |-> <<2, 0>>,
     L |-> 3, rest |-> B(<<"'","a","'">>)],
    [first |-> 147, fmt |-> B(<<"N","U","M","P","Y">>), version |-> <<1, 0>>,
     L |-> 258, rest |-> B(<<"'","a","'">>)] }

\* C6: parse_header returns no Value for a rejected envelope, and what it
\* reports tells the kinds of rejection apart: InvalidMagic (first byte
\* or format tag), UnsupportedVersion (version not (1, 0)), TruncatedInput
\* (declared length beyond the bytes that follow).
EnvelopeErrors ==
  (op = "parse_header" /\ Rejection(input) # "none") =>
    /\ parsed.st # "Done"
    /\ \A e \in RejectedEnvelopes :
         Rejection(e) # Rejection(input) =>
           parse_header(Envelope(e.first, e.fmt, e.version, e.L, e.rest)) # parsed

\* C7: for every integer of the signed 64-bit range, its decimal text
\* (with a leading '-' when negative) parses as an item to that Integer;
\* digits whose value is outside the range are a parse failure.
IntegerRule ==
  (/\ op = "item"
   /\ input.kind = "integer"
   /\ input.ds = Canon(input.ds)
   /\ ~(input.neg /\ input.ds = <<0>>)) =>
    IF DigitsLeq(input.ds, IF input.neg THEN I64MinDigits ELSE I64MaxDigits)
    THEN parsed = Done(<<>>, Integer([neg |-> input.neg, mag |-> input.ds]))
    ELSE parsed.st # "Done"

\* C8: '(' items ')' and '[' items ']' parse to the same List of the
\* items in order, with or without a comma after the last item; "()" is
\* List([]), "(4)" is List([Integer(4)]), "(1 , 2 ,)" is
\* List([Integer(1), Integer(2)]).
ListsAlike ==
  (op = "item" /\ input.kind = "list") =>
    /\ parsed.st = "Done"
    /\ parsed.val = List([k \in 1..Len(input.items) |-> item(input.items[k]).val])
    /\ text = B(<<"(",")">>) => parsed.val = List(<<>>)
    /\ text = B(<<"(","4",")">>) => parsed.val = List(<<IntV(4)>>)
    /\ text = B(<<"(","1"," ",","," ","2"," ",",",")">>) => parsed.val = List(<<IntV(1), IntV(2)>>)

\* The list "(1 , 2 ,)", in parentheses and with a comma after the last
\* item, has been parsed.
ListsAlikeWitness ==
  /\ op = "item"
  /\ input.kind = "list"
  /\ input.paren
  /\ input.comma
  /\ text = B(<<"(","1"," ",","," ","2"," ",",",")">>)
  /\ parsed = Done(<<>>, List(<<IntV(1), IntV(2)>>))

\* C9: blanks before the first token, after the last and around the
\* commas and delimiters of a list change nothing: the padded text parses,
\* with all input consumed, to the Value of the unpadded text ("  True",
\* "False " and " [5 , 6 , 7]" to Bool(true), Bool(false) and
\* List([Integer(5), Integer(6), Integer(7)])).
WhitespaceInsignificant ==
  (op = "item" /\ input.kind = "padded") =>
    /\ item(Concat(input.tokens)).st = "Done"
    /\ parsed = Done(<<>>, item(Concat(input.tokens)).val)
    /\ text = B(<<" "," ","T","r","u","e">>) => parsed.val = Bool(TRUE)
    /\ text = B(<<"F","a","l","s","e"," ">>) => parsed.val = Bool(FALSE)
    /\ text = B(<<" ","[","5"," ",","," ","6"," ",","," ","7","]">>) => parsed.val = List(<<IntV(5), IntV(6), IntV(7)>>)

\* " [5 , 6 , 7]" has been parsed.
WhitespaceInsignificantWitness ==
  /\ op = "item"
  /\ input.kind = "padded"
  /\ text = B(<<" ","[","5"," ",","," ","6"," ",","," ","7","]">>)
  /\ parsed = Done(<<>>, List(<<IntV(5), IntV(6), IntV(7)>>))

\* C10: after a valid prefix declaring length L, parse_header succeeds
\* only if the item grammar consumes all L bytes (an item followed within
\* them by bytes that are no blanks is a failure), and what it leaves on
\* success starts at offset 10 + L.
HeaderFullyConsumed ==
  (op = "parse_header" /\ Rejection(input) = "none" /\ parsed.st = "Done") =>
    /\ item(Take(input.rest, input.L)).st = "Done"
    /\ item(Take(input.rest, input.L)).rest = <<>>
    /\ parsed.rest = Drop(text, 10 + input.L)

=============================================================================
